---- MODULE Spec2Model ----
(***************************************************************************)
(* Weekly KPI reporter: period resolution (transform.compute_date_range),  *)
(* KPI aggregation (transform.compute_kpis) and the run of main.main with  *)
(* the report builder and the Telegram notifier.                           *)
(*                                                                         *)
(* Representation.  A pandas Timestamp is an integer number of ticks,      *)
(* TicksPerDay ticks to the calendar day, so that tick 0 of a day is its   *)
(* midnight.  A DataFrame is the sequence of its rows, a row a record of   *)
(* the columns the code reads.  Python's None (and pandas' NaT) is the     *)
(* empty tuple, a present value v is <<v>>.  A float that results from a   *)
(* division is the reduced fraction <<num, den>>; 0.0 is <<0, 1>>.  A      *)
(* division by zero is <<0, 0>>.  Amounts are whole numbers, so sums of    *)
(* amounts are integers.                                                   *)
(***************************************************************************)
EXTENDS FiniteSets, Integers, Sequences, TLC

VARIABLES users, payments, arg_start, arg_end, window_days, period, error,
          daily, summary, pc, no_telegram, enable_telegram, token, chat_id,
          report, requests

vars == <<users, payments, arg_start, arg_end, window_days, period, error,
          daily, summary, pc, no_telegram, enable_telegram, token, chat_id,
          report, requests>>

----------------------------------------------------------------------------
(* Bounds of the model *)

NumDays == 2

TicksPerDay == 2

MaxUsers == 2

MaxPayments == 2

MaxUserId == 2

MaxPaymentId == 2

MaxAmount == 2

MaxWindow == 3

MainMaxRows == 1

(* Default of the window_days parameter of compute_date_range *)
DefaultWindowDays == 7

----------------------------------------------------------------------------
(* Values *)

None == <<>>

Some(v) == <<v>>

Zero == <<0, 1>>

ZeroDivision == <<0, 0>>

RECURSIVE GCD(_, _)
GCD(a, b) == IF b = 0 THEN a ELSE GCD(b, a % b)

(* a / b for whole a >= 0, b >= 0 *)
TrueDiv(a, b) ==
    IF b = 0 THEN ZeroDivision
    ELSE <<a \div GCD(a, b), b \div GCD(a, b)>>

Timestamps == 0 .. (NumDays * TicksPerDay - 1)

Midnights == {t \in Timestamps : t % TicksPerDay = 0}

(* Timestamp.normalize / Series.dt.normalize: the midnight of the day *)
normalize(t) == t - (t % TicksPerDay)

UserRows(ids) == [user_id : ids, registered_at : Timestamps]

PaymentRows(pids, uids, amounts) ==
    [payment_id : pids, user_id : uids, amount : amounts, paid_at : Timestamps]

RECURSIVE SumSeq(_)
SumSeq(s) == IF s = <<>> THEN 0 ELSE s[1] + SumSeq(Tail(s))

RECURSIVE MaxSeq(_)
MaxSeq(s) ==
    IF Len(s) = 1 THEN s[1]
    ELSE LET m == MaxSeq(Tail(s)) IN IF s[1] >= m THEN s[1] ELSE m

(* df["user_id"], df["payment_id"], df["amount"], df["registered_at"], df["paid_at"] *)
user_id(df) == [i \in 1 .. Len(df) |-> df[i].user_id]

payment_id(df) == [i \in 1 .. Len(df) |-> df[i].payment_id]

amount(df) == [i \in 1 .. Len(df) |-> df[i].amount]

registered_at(df) == [i \in 1 .. Len(df) |-> df[i].registered_at]

paid_at(df) == [i \in 1 .. Len(df) |-> df[i].paid_at]

(* Series.nunique *)
NUnique(s) == Cardinality({s[i] : i \in 1 .. Len(s)})

(* Series.mean of a non-empty series of whole numbers *)
Mean(s) == TrueDiv(SumSeq(s), Len(s))

----------------------------------------------------------------------------
(* transform.compute_date_range *)

both_given(start_date, end_date) == start_date # None /\ end_date # None

(* pd.to_datetime of the two arguments, each normalized to midnight *)
explicit_range(start_date, end_date) ==
    [error |-> "", period |-> <<normalize(start_date[1]), normalize(end_date[1])>>]

all_dates_users_only(us, ps) ==
    IF us # <<>> THEN <<MaxSeq(registered_at(us))>> ELSE <<>>

(* the maxima of the non-empty frames *)
all_dates(us, ps) ==
    (IF us # <<>> THEN <<MaxSeq(registered_at(us))>> ELSE <<>>)
    \o (IF ps # <<>> THEN <<MaxSeq(paid_at(ps))>> ELSE <<>>)

first_date_full_window(last_date, window) == last_date - window * TicksPerDay

(* last_date - pd.Timedelta(days=window_days - 1) *)
first_date(last_date, window) == last_date - (window - 1) * TicksPerDay

inferred_range(us, ps, window) ==
    LET dates == all_dates(us, ps) IN
    IF dates = <<>>
    THEN [error |-> "ValueError", period |-> None]
    ELSE LET last_date == normalize(MaxSeq(dates)) IN
         [error |-> "", period |-> <<first_date(last_date, window), last_date>>]

compute_date_range_end_anchor(us, ps, start_date, end_date, window) ==
    IF both_given(start_date, end_date)
    THEN explicit_range(start_date, end_date)
    ELSE IF end_date # None
         THEN [error |-> "",
               period |-> <<first_date(normalize(end_date[1]), window),
                            normalize(end_date[1])>>]
         ELSE inferred_range(us, ps, window)

compute_date_range(us, ps, start_date, end_date, window) ==
    IF both_given(start_date, end_date)
    THEN explicit_range(start_date, end_date)
    ELSE inferred_range(us, ps, window)

----------------------------------------------------------------------------
(* transform.compute_kpis *)

in_period_either(t, start, end) == t >= start \/ t <= end

(* (col >= start_date) & (col <= end_date), on the raw timestamps *)
in_period(t, start, end) == t >= start /\ t <= end

date_range_open_end(start, end) ==
    IF end <= start THEN <<>>
    ELSE [i \in 1 .. ((end - start - 1) \div TicksPerDay + 1) |->
              start + (i - 1) * TicksPerDay]

(* pd.date_range(start_date, end_date, freq="D"): start, start + 1 day, ... <= end *)
date_range(start, end) ==
    IF end < start THEN <<>>
    ELSE [i \in 1 .. ((end - start) \div TicksPerDay + 1) |->
              start + (i - 1) * TicksPerDay]

conversion_by_day_unguarded(pay_u, new_u) == TrueDiv(pay_u, new_u)

(* one entry of conversion_by_day *)
conversion_by_day(pay_u, new_u) ==
    IF new_u > 0 THEN TrueDiv(pay_u, new_u) ELSE Zero

(* conversion_overall *)
conversion_overall(total_paying_users, total_new_users) ==
    IF total_new_users > 0 THEN TrueDiv(total_paying_users, total_new_users) ELSE Zero

(* one entry of avg_check_by_day *)
avg_check_by_day(day_amounts) ==
    IF day_amounts # <<>> THEN Mean(day_amounts) ELSE Zero

(* avg_check_overall *)
avg_check_overall(amounts) ==
    IF amounts # <<>> THEN Mean(amounts) ELSE None

compute_kpis(us, ps, start_date, end_date) ==
    LET users_period ==
            SelectSeq(us, LAMBDA r : in_period(r.registered_at, start_date, end_date))
        payments_period ==
            SelectSeq(ps, LAMBDA r : in_period(r.paid_at, start_date, end_date))
        all_days == date_range(start_date, end_date)
        users_on(d) ==
            SelectSeq(users_period, LAMBDA r : normalize(r.registered_at) = d)
        payments_on(d) ==
            SelectSeq(payments_period, LAMBDA r : normalize(r.paid_at) = d)
        new_users_by_day ==
            [i \in 1 .. Len(all_days) |->
                NUnique(user_id(users_on(all_days[i])))]
        paying_users_by_day ==
            [i \in 1 .. Len(all_days) |->
                NUnique(user_id(payments_on(all_days[i])))]
        payments_count_by_day ==
            [i \in 1 .. Len(all_days) |->
                NUnique(payment_id(payments_on(all_days[i])))]
        revenue_by_day ==
            [i \in 1 .. Len(all_days) |->
                SumSeq(amount(payments_on(all_days[i])))]
        daily_df ==
            [i \in 1 .. Len(all_days) |->
                [date |-> all_days[i],
                 new_users |-> new_users_by_day[i],
                 paying_users |-> paying_users_by_day[i],
                 payments_count |-> payments_count_by_day[i],
                 revenue |-> revenue_by_day[i],
                 conversion |->
                     conversion_by_day(paying_users_by_day[i], new_users_by_day[i]),
                 avg_check |->
                     avg_check_by_day(amount(payments_on(all_days[i])))]]
        total_new_users == SumSeq(new_users_by_day)
        total_paying_users == NUnique(user_id(payments_period))
    IN  [daily |-> daily_df,
         summary |->
             [start_date |-> start_date,
              end_date |-> end_date,
              total_new_users |-> total_new_users,
              total_paying_users |-> total_paying_users,
              total_revenue |-> SumSeq(revenue_by_day),
              conversion |-> conversion_overall(total_paying_users, total_new_users),
              avg_check |->
                  avg_check_overall(amount(payments_period))]]

----------------------------------------------------------------------------
(* Direct calls of compute_kpis on a period, and of compute_date_range      *)
(* followed by compute_kpis                                                 *)

NoSummary == <<>>

NoReport == <<>>

(* config.py as shipped: notification disabled, no credentials, nothing sent *)
Idle ==
    /\ no_telegram = FALSE /\ enable_telegram = FALSE
    /\ token = "" /\ chat_id = ""
    /\ report = NoReport /\ requests = <<>>

(* compute_kpis called on any two frames and any two midnights *)
InitKpi ==
    /\ \E n \in 0 .. MaxUsers : users \in [1 .. n -> UserRows(1 .. MaxUserId)]
    /\ \E n \in 0 .. MaxPayments :
          payments \in
              [1 .. n -> PaymentRows(1 .. MaxPaymentId, 1 .. MaxUserId, 1 .. MaxAmount)]
    /\ arg_start = None /\ arg_end = None /\ window_days = DefaultWindowDays
    /\ period \in Midnights \X Midnights
    /\ error = "" /\ daily = <<>> /\ summary = NoSummary
    /\ pc = "kpis"
    /\ Idle

(* compute_date_range called on any two frames, dates and window; it reads *)
(* the registered_at and paid_at columns only, the other columns are fixed *)
InitRange ==
    /\ \E n \in 0 .. MaxUsers : users \in [1 .. n -> UserRows({1})]
    /\ \E n \in 0 .. MaxPayments : payments \in [1 .. n -> PaymentRows({1}, {1}, {1})]
    /\ arg_start \in {None} \cup {Some(t) : t \in Timestamps}
    /\ arg_end \in {None} \cup {Some(t) : t \in Timestamps}
    /\ window_days \in 0 .. MaxWindow
    /\ period = None
    /\ error = "" /\ daily = <<>> /\ summary = NoSummary
    /\ pc = "range"
    /\ Idle

CallComputeDateRange ==
    /\ pc = "range"
    /\ LET r == compute_date_range(users, payments, arg_start, arg_end, window_days) IN
       /\ error' = r.error
       /\ period' = r.period
       /\ pc' = IF r.error = "" THEN "kpis" ELSE "raised"
    /\ UNCHANGED <<users, payments, arg_start, arg_end, window_days, daily, summary,
                   no_telegram, enable_telegram, token, chat_id, report, requests>>

CallComputeKpis ==
    /\ pc = "kpis"
    /\ LET r == compute_kpis(users, payments, period[1], period[2]) IN
       /\ daily' = r.daily
       /\ summary' = Some(r.summary)
    /\ pc' = "done"
    /\ UNCHANGED <<users, payments, arg_start, arg_end, window_days, period, error,
                   no_telegram, enable_telegram, token, chat_id, report, requests>>

NextKpi == CallComputeKpis

SpecKpi == InitKpi /\ [][NextKpi]_vars

NextRange == CallComputeDateRange \/ CallComputeKpis

SpecRange == InitRange /\ [][NextRange]_vars

----------------------------------------------------------------------------
(* main.main: load, resolve the period, aggregate, build the report, notify *)

(* transform.summary_to_dict: the dates become calendar dates (day numbers) *)
summary_to_dict(s) ==
    [start_date |-> s.start_date \div TicksPerDay,
     end_date |-> s.end_date \div TicksPerDay,
     total_new_users |-> s.total_new_users,
     total_paying_users |-> s.total_paying_users,
     total_revenue |-> s.total_revenue,
     conversion |-> s.conversion,
     avg_check |-> s.avg_check]

(* report_builder.build_excel_report: the four sheets of the workbook *)
build_excel_report(users_df, payments_df, daily_df, summary_dict) ==
    [raw_users |-> users_df,
     raw_payments |-> payments_df,
     daily_kpi |-> daily_df,
     summary |-> summary_dict]

(* the command line (--start-date, --end-date, --no-telegram) and the values *)
(* of config.ENABLE_TELEGRAM, TELEGRAM_BOT_TOKEN and TELEGRAM_CHAT_ID         *)
InitMain ==
    /\ users = <<>> /\ payments = <<>>
    /\ arg_start \in {None} \cup {Some(t) : t \in Timestamps}
    /\ arg_end \in {None} \cup {Some(t) : t \in Timestamps}
    /\ window_days = DefaultWindowDays
    /\ period = None
    /\ error = "" /\ daily = <<>> /\ summary = NoSummary
    /\ no_telegram \in BOOLEAN /\ enable_telegram \in BOOLEAN
    /\ token \in {"", "token"} /\ chat_id \in {"", "chat"}
    /\ report = NoReport /\ requests = <<>>
    /\ pc = "load"

(* load_all, and the return when both frames are empty *)
MainLoad ==
    /\ pc = "load"
    /\ \E n \in 0 .. MainMaxRows, m \in 0 .. MainMaxRows :
       \E us \in [1 .. n -> UserRows({1})], ps \in [1 .. m -> PaymentRows({1}, {1}, {1})] :
          /\ users' = us
          /\ payments' = ps
          /\ pc' = IF us = <<>> /\ ps = <<>> THEN "exit" ELSE "range"
    /\ UNCHANGED <<arg_start, arg_end, window_days, period, error, daily, summary,
                   no_telegram, enable_telegram, token, chat_id, report, requests>>

MainBuildReport ==
    /\ pc = "done"
    /\ report' = Some(build_excel_report(users, payments, daily,
                                         summary_to_dict(summary[1])))
    /\ pc' = "telegram"
    /\ UNCHANGED <<users, payments, arg_start, arg_end, window_days, period, error,
                   daily, summary, no_telegram, enable_telegram, token, chat_id,
                   requests>>

(* step 5 of main: whether send_telegram_message is called *)
MainTelegram ==
    /\ pc = "telegram"
    /\ pc' = IF ~no_telegram /\ enable_telegram
             THEN IF token = "" \/ chat_id = "" THEN "skipped" ELSE "send_message"
             ELSE "exit"
    /\ UNCHANGED <<users, payments, arg_start, arg_end, window_days, period, error,
                   daily, summary, no_telegram, enable_telegram, token, chat_id,
                   report, requests>>

SendMessageUnchecked ==
    /\ pc = "send_message"
    /\ \E ok \in BOOLEAN :
          requests' = Append(requests, [method |-> "sendMessage", ok |-> ok])
    /\ pc' = "send_document"
    /\ UNCHANGED <<users, payments, arg_start, arg_end, window_days, period, error,
                   daily, summary, no_telegram, enable_telegram, token, chat_id,
                   report>>

(* send_telegram_message up to resp.raise_for_status() of the text request *)
SendMessage ==
    /\ pc = "send_message"
    /\ IF token = "" \/ chat_id = ""
       THEN /\ pc' = "failed"
            /\ UNCHANGED requests
       ELSE \E ok \in BOOLEAN :
               /\ requests' = Append(requests, [method |-> "sendMessage", ok |-> ok])
               /\ pc' = IF ok THEN "send_document" ELSE "failed"
    /\ UNCHANGED <<users, payments, arg_start, arg_end, window_days, period, error,
                   daily, summary, no_telegram, enable_telegram, token, chat_id,
                   report>>

(* send_telegram_message from line 37: nothing more when file_path is None   *)
(* (main passes the path build_excel_report returned); else the file is     *)
(* opened, which can fail before any request, and the document is posted    *)
SendDocument ==
    /\ pc = "send_document"
    /\ IF report = NoReport
       THEN /\ pc' = "exit"
            /\ UNCHANGED requests
       ELSE \E opened \in BOOLEAN, ok \in BOOLEAN :
               IF ~opened
               THEN /\ pc' = "failed"
                    /\ UNCHANGED requests
               ELSE /\ requests' = Append(requests, [method |-> "sendDocument", ok |-> ok])
                    /\ pc' = IF ok THEN "exit" ELSE "failed"
    /\ UNCHANGED <<users, payments, arg_start, arg_end, window_days, period, error,
                   daily, summary, no_telegram, enable_telegram, token, chat_id,
                   report>>

NextMain ==
    \/ MainLoad
    \/ CallComputeDateRange
    \/ CallComputeKpis
    \/ MainBuildReport
    \/ MainTelegram
    \/ SendMessage
    \/ SendDocument

SpecMain == InitMain /\ [][NextMain]_vars

----------------------------------------------------------------------------
(* Vocabulary of the properties *)

(* the calendar day (day number) of a timestamp *)
DayOf(t) == t \div TicksPerDay

Computed == pc = "done"

Resolved == pc \in {"kpis", "done"}

Summary == summary[1]

DayIndexes == 1 .. Len(daily)

(* the rows whose calendar day is day number n *)
UsersOfDay(n) == {k \in 1 .. Len(users) : DayOf(users[k].registered_at) = n}

PaymentsOfDay(n) == {k \in 1 .. Len(payments) : DayOf(payments[k].paid_at) = n}

(* the rows whose calendar day lies in the period, both ends included *)
UsersOfPeriod ==
    {k \in 1 .. Len(users) :
        /\ DayOf(period[1]) <= DayOf(users[k].registered_at)
        /\ DayOf(users[k].registered_at) <= DayOf(period[2])}

PaymentsOfPeriod ==
    {k \in 1 .. Len(payments) :
        /\ DayOf(period[1]) <= DayOf(payments[k].paid_at)
        /\ DayOf(payments[k].paid_at) <= DayOf(period[2])}

RECURSIVE AmountOf(_)
AmountOf(K) ==
    IF K = {} THEN 0
    ELSE LET k == CHOOSE x \in K : TRUE IN payments[k].amount + AmountOf(K \ {k})

RECURSIVE SumOver(_, _)
SumOver(I, f) ==
    IF I = {} THEN 0
    ELSE LET i == CHOOSE x \in I : TRUE IN f[i] + SumOver(I \ {i}, f)

AllTimestamps ==
    {users[k].registered_at : k \in 1 .. Len(users)}
    \cup {payments[k].paid_at : k \in 1 .. Len(payments)}

Latest == CHOOSE t \in AllTimestamps : \A x \in AllTimestamps : x <= t

BothSupplied == arg_start # None /\ arg_end # None

ExactlyOneSupplied == (arg_start = None) # (arg_end = None)

NoData == users = <<>> /\ payments = <<>>

----------------------------------------------------------------------------
(* C1: every user whose registration day lies in the period, whatever the  *)
(* time of day, is counted in the row of that day and in the totals, and   *)
(* likewise every payment by the day of paid_at: per day, new_users is the *)
(* number of distinct users registered that day, payments_count the number *)
(* of distinct payments of that day and revenue their amount; the totals   *)
(* cover all records of the period.                                        *)
C1_CountedByCalendarDate ==
    Computed =>
        /\ \A i \in DayIndexes :
              /\ daily[i].new_users =
                     Cardinality({users[k].user_id : k \in UsersOfDay(DayOf(daily[i].date))})
              /\ daily[i].payments_count =
                     Cardinality({payments[k].payment_id :
                                     k \in PaymentsOfDay(DayOf(daily[i].date))})
              /\ daily[i].revenue = AmountOf(PaymentsOfDay(DayOf(daily[i].date)))
        /\ \A k \in UsersOfPeriod :
              \E i \in DayIndexes :
                 /\ DayOf(daily[i].date) = DayOf(users[k].registered_at)
                 /\ daily[i].new_users >= 1
        /\ (UsersOfPeriod # {}) => Summary.total_new_users >= 1
        /\ Summary.total_revenue = AmountOf(PaymentsOfPeriod)

(* C2: for start <= end the daily metrics have (end - start).days + 1 rows *)
(* dated start, start + 1 day, ..., end with no gap and no duplicate, and  *)
(* a day without activity has all six metrics zero.                        *)
C2_OneRowPerDay ==
    (Computed /\ period[1] <= period[2]) =>
        /\ Len(daily) = DayOf(period[2]) - DayOf(period[1]) + 1
        /\ daily[1].date = period[1]
        /\ daily[Len(daily)].date = period[2]
        /\ \A i \in DayIndexes : daily[i].date % TicksPerDay = 0
        /\ \A i \in DayIndexes :
              i < Len(daily) => DayOf(daily[i + 1].date) = DayOf(daily[i].date) + 1
        /\ \A i \in DayIndexes :
              (UsersOfDay(DayOf(daily[i].date)) = {}
                  /\ PaymentsOfDay(DayOf(daily[i].date)) = {}) =>
                 /\ daily[i].new_users = 0
                 /\ daily[i].paying_users = 0
                 /\ daily[i].payments_count = 0
                 /\ daily[i].revenue = 0
                 /\ daily[i].conversion = Zero
                 /\ daily[i].avg_check = Zero

C2_Witness ==
    /\ Computed
    /\ Len(daily) >= 3
    /\ \E i \in DayIndexes : daily[i].new_users > 0 /\ daily[i].revenue > 0
    /\ \E i \in DayIndexes :
          /\ 1 < i /\ i < Len(daily)
          /\ UsersOfDay(DayOf(daily[i].date)) = {}
          /\ PaymentsOfDay(DayOf(daily[i].date)) = {}

(* C3: total_paying_users is the number of distinct user_id over all       *)
(* payments of the period, a user paying on k days of the period counts in *)
(* paying_users of each of those days, and                                 *)
(* sum of daily paying_users >= total_paying_users >= max daily.           *)
C3_PayingUsersOfPeriod ==
    Computed =>
        /\ Summary.total_paying_users =
               Cardinality({payments[k].user_id : k \in PaymentsOfPeriod})
        /\ \A i \in DayIndexes :
              daily[i].paying_users =
                  Cardinality({payments[k].user_id :
                                  k \in PaymentsOfDay(DayOf(daily[i].date))})
        /\ SumOver(DayIndexes, [i \in DayIndexes |-> daily[i].paying_users])
               >= Summary.total_paying_users
        /\ \A i \in DayIndexes : Summary.total_paying_users >= daily[i].paying_users

(* C4: with no payment in the period the summary avg_check is None and     *)
(* every daily avg_check is 0.0; with at least one payment in the period   *)
(* the summary avg_check is the mean amount of the payments of the period. *)
C4_AvgCheckOfPeriod ==
    Computed =>
        /\ (PaymentsOfPeriod = {}) =>
              /\ Summary.avg_check = None
              /\ \A i \in DayIndexes : daily[i].avg_check = Zero
        /\ (PaymentsOfPeriod # {}) =>
              /\ Summary.avg_check # None
              /\ Len(Summary.avg_check) = 2
              /\ Summary.avg_check[2] > 0
              /\ Summary.avg_check[1] * Cardinality(PaymentsOfPeriod)
                     = Summary.avg_check[2] * AmountOf(PaymentsOfPeriod)

(* C5: without both explicit dates and with some data, end is the midnight *)
(* of the day of the latest timestamp over registered_at and paid_at and   *)
(* start = end - (window_days - 1) days; for window_days >= 1 the period   *)
(* has start <= end, spans window_days days and contains the latest day.   *)
C5_TrailingWindow ==
    (pc # "range" /\ ~BothSupplied /\ ~NoData) =>
        /\ Resolved
        /\ error = ""
        /\ period[2] % TicksPerDay = 0
        /\ period[2] <= Latest /\ Latest < period[2] + TicksPerDay
        /\ period[1] = period[2] - (window_days - 1) * TicksPerDay
        /\ window_days >= 1 =>
              /\ period[1] <= period[2]
              /\ DayOf(period[2]) - DayOf(period[1]) + 1 = window_days
              /\ DayOf(period[1]) <= DayOf(Latest)
              /\ DayOf(Latest) <= DayOf(period[2])

C5_Witness ==
    /\ pc = "kpis"
    /\ ~BothSupplied
    /\ users # <<>> /\ payments # <<>>
    /\ window_days >= 2
    /\ Latest % TicksPerDay # 0
    /\ period[2] = Latest - (Latest % TicksPerDay)
    /\ period[1] < period[2]

(* C6: compute_date_range raises the no-data error exactly when users and  *)
(* payments are both empty and the two dates are not both supplied; in     *)
(* every other case it returns a period and raises nothing.                *)
C6_NoDataError ==
    (pc # "range") =>
        /\ (pc = "raised") <=> (NoData /\ ~BothSupplied)
        /\ (pc = "raised") <=> (error = "ValueError")
        /\ (pc # "raised") => (error = "" /\ period # None /\ Len(period) = 2)

C6_Witness ==
    /\ pc = "raised"
    /\ error = "ValueError"
    /\ arg_start = None /\ arg_end = None

(* C7: no division by zero: the period conversion is                       *)
(* total_paying_users / total_new_users when total_new_users > 0 and 0.0   *)
(* otherwise, and each day's conversion is paying_users / new_users when   *)
(* new_users > 0 and 0.0 otherwise.                                        *)
C7_ConversionGuarded ==
    Computed =>
        /\ Summary.conversion # ZeroDivision
        /\ Summary.conversion[2] > 0
        /\ IF Summary.total_new_users > 0
           THEN Summary.conversion[1] * Summary.total_new_users
                    = Summary.conversion[2] * Summary.total_paying_users
           ELSE Summary.conversion = Zero
        /\ \A i \in DayIndexes :
              /\ daily[i].conversion # ZeroDivision
              /\ daily[i].conversion[2] > 0
              /\ IF daily[i].new_users > 0
                 THEN daily[i].conversion[1] * daily[i].new_users
                          = daily[i].conversion[2] * daily[i].paying_users
                 ELSE daily[i].conversion = Zero

C7_Witness ==
    /\ Computed
    /\ Summary.total_new_users > 0
    /\ Summary.conversion # Zero
    /\ \E i \in DayIndexes :
          /\ daily[i].new_users = 0
          /\ daily[i].paying_users > 0
          /\ daily[i].conversion = Zero
    /\ \E i \in DayIndexes :
          /\ daily[i].new_users > 0
          /\ daily[i].paying_users > 0

(* C8: the report is completely written before the first notification     *)
(* request; a failure of the notification step happens only once the       *)
(* report exists and leaves it in place and unmodified; no request is      *)
(* retried; the document request follows a successful text request only.   *)
C8_ReportBeforeNotification ==
    /\ [](/\ (requests # <<>> \/ pc \in {"send_message", "send_document",
                                         "skipped", "failed"}) =>
                 /\ report # NoReport
                 /\ report[1] = build_excel_report(users, payments, daily,
                                                   summary_to_dict(Summary))
          /\ Len(requests) <= 2
          /\ \A i \in 1 .. Len(requests) :
                /\ requests[i].method = IF i = 1 THEN "sendMessage" ELSE "sendDocument"
                /\ i < Len(requests) => requests[i].ok)
    /\ [][/\ (report # NoReport) => (report' = report)
          /\ (pc = "failed") => (pc' = "failed" /\ requests' = requests)]_vars

C8_Witness ==
    /\ pc = "failed"
    /\ Len(requests) = 2
    /\ requests[1].ok /\ ~requests[2].ok
    /\ report # NoReport

(* C9: with exactly one of start_date and end_date supplied the result is  *)
(* the one obtained with neither: the trailing window ending on the latest *)
(* activity date when there is data, the no-data error when both inputs    *)
(* are empty; the partial input is never rejected for itself.              *)
C9_PartialDatesIgnored ==
    (pc # "range" /\ ExactlyOneSupplied) =>
        /\ error = compute_date_range(users, payments, None, None, window_days).error
        /\ period = compute_date_range(users, payments, None, None, window_days).period
        /\ NoData <=> (pc = "raised")
        /\ ~NoData =>
              /\ error = ""
              /\ period[2] <= Latest /\ Latest < period[2] + TicksPerDay
              /\ period[2] % TicksPerDay = 0
              /\ period[1] = period[2] - (window_days - 1) * TicksPerDay

C9_Witness ==
    /\ pc = "kpis"
    /\ arg_start = None /\ arg_end # None
    /\ ~NoData
    /\ DayOf(arg_end[1]) # DayOf(Latest)
    /\ DayOf(period[2]) = DayOf(Latest)

(* C10: with both dates supplied and start after end, compute_date_range   *)
(* returns the two midnights without error, and compute_kpis on that       *)
(* period returns no daily row and an all-zero summary with avg_check      *)
(* None, whatever the inputs contain.                                      *)
C10_InvertedPeriod ==
    (pc # "range" /\ BothSupplied /\ DayOf(arg_start[1]) > DayOf(arg_end[1])) =>
        /\ Resolved
        /\ error = ""
        /\ period = <<DayOf(arg_start[1]) * TicksPerDay, DayOf(arg_end[1]) * TicksPerDay>>
        /\ Computed =>
              /\ daily = <<>>
              /\ Summary.total_new_users = 0
              /\ Summary.total_paying_users = 0
              /\ Summary.total_revenue = 0
              /\ Summary.conversion = Zero
              /\ Summary.avg_check = None

C10_Witness ==
    /\ Computed
    /\ BothSupplied
    /\ period[1] > period[2]
    /\ arg_start[1] % TicksPerDay # 0
    /\ users # <<>> /\ payments # <<>>
    /\ daily = <<>>

====
